---- MODULE Spec2Model ----
(***************************************************************************)
(* Asset cache and sequential distribution engine of the music service    *)
(* (src/gemini-api/services/music_service.py, MusicService, the hybrid    *)
(* caching entry point of lines 69-128 with the helpers it calls).        *)
(* The class body defines get_music_with_enhanced_prompt a second time,    *)
(* at line 279 among the legacy methods; the model follows the definition *)
(* of lines 69-128.                                                        *)
(*                                                                         *)
(* Strings are sequences of character codes.  A track uuid is the string  *)
(* "<epoch>-<rand>"; with the epoch at a constant digit count the string  *)
(* order used by order("uuid") and gt("uuid", ..) is the order of the     *)
(* pair (epoch, rand), which is encoded as epoch * RandBase + rand.       *)
(* None is 0: every minted uuid is positive.  md5 is taken as injective:  *)
(* a cache key is the payload that is hashed.                             *)
(***************************************************************************)
EXTENDS Bags, FiniteSets, Integers, Sequences, TLC

\* ----- bounds of the model
MaxClock == 2
NumRand == 1
MaxTracks == 3
MaxFaults == 1

Users == {"u1", "u2"}
Tasks == {"t1", "t2"}
None == 0
\* users are interchangeable: the serve history is recorded for one of them
Observed == "u1"
\* the server processes that run sign_up against the one store, and the emails
\* they are asked to register
Workers == {"w1", "w2"}
Emails == {"a@x.io", "b@x.io"}
\* no sign_up call made yet
NoCall == [pc |-> "idle", email |-> "", result |-> "none"]

\* ----- strings
S_meditation == <<109, 101, 100, 105, 116, 97, 116, 105, 111, 110>>
S_Focus_padded == <<32, 70, 111, 99, 117, 115>>
S_a == <<97>>
S_A_padded == <<32, 65, 32>>
S_b == <<98>>
S_blank == <<32>>
S_prompt1 == <<99>>
S_prompt2 == <<100>>

IsSpace(c) == c = 32 \/ (c >= 9 /\ c <= 13)

LowerChar(c) == IF c >= 65 /\ c <= 90 THEN c + 32 ELSE c

Lower(s) == [i \in 1..Len(s) |-> LowerChar(s[i])]

RECURSIVE LStrip(_)
LStrip(s) == IF s # <<>> /\ IsSpace(Head(s)) THEN LStrip(Tail(s)) ELSE s

RECURSIVE RStrip(_)
RStrip(s) ==
  IF s # <<>> /\ IsSpace(s[Len(s)]) THEN RStrip(SubSeq(s, 1, Len(s) - 1)) ELSE s

Strip(s) == RStrip(LStrip(s))

\* Python's str order: by code point, a proper prefix first.
RECURSIVE StrLess(_, _)
StrLess(a, b) ==
  IF b = <<>> THEN FALSE
  ELSE IF a = <<>> THEN TRUE
  ELSE IF Head(a) # Head(b) THEN Head(a) < Head(b)
  ELSE StrLess(Tail(a), Tail(b))

RECURSIVE Insert(_, _)
Insert(x, l) ==
  IF l = <<>> THEN <<x>>
  ELSE IF StrLess(Head(l), x) THEN <<Head(l)>> \o Insert(x, Tail(l))
  ELSE <<x>> \o l

RECURSIVE Sorted(_)
Sorted(l) == IF l = <<>> THEN <<>> ELSE Insert(Head(l), Sorted(Tail(l)))

RECURSIVE StripLowerNonEmpty(_)
StripLowerNonEmpty(values) ==
  IF values = <<>> THEN <<>>
  ELSE IF Strip(Head(values)) # <<>>
       THEN <<Lower(Strip(Head(values)))>> \o StripLowerNonEmpty(Tail(values))
       ELSE StripLowerNonEmpty(Tail(values))

\* a faulty variant of normalize_list: the entries are not sorted
normalize_list_unsorted(values) ==
  IF values = <<>> THEN <<>> ELSE StripLowerNonEmpty(values)

normalize_list(values) ==
  IF values = <<>> THEN <<>> ELSE Sorted(StripLowerNonEmpty(values))

\* a faulty variant of duration_bucket: 180 seconds counted as long
duration_bucket_exclusive(seconds) ==
  IF seconds < 60 THEN "short"
  ELSE IF seconds < 180 THEN "medium"
  ELSE "long"

duration_bucket(seconds) ==
  IF seconds < 60 THEN "short"
  ELSE IF seconds <= 180 THEN "medium"
  ELSE "long"

build_cache_key(music_type, mood, instruments, duration_seconds) ==
  [music_type |-> normalize_list(music_type),
   mood |-> normalize_list(mood),
   instruments |-> normalize_list(instruments),
   duration |-> duration_bucket(duration_seconds)]

normalize_tag(tag) == IF tag # <<>> THEN Lower(Strip(tag)) ELSE S_meditation

\* ----- requests (MusicGenerateRequest: prompt, tag, duration, attribute lists)
Req(p, t, d, mt) ==
  [prompt |-> p, tag |-> t, duration |-> d, is_vip |-> FALSE, music_type |-> mt,
   mood |-> <<>>, instruments |-> <<>>]

Requests ==
  { Req(S_prompt1, S_meditation, 30, <<S_a>>),
    Req(S_prompt2, <<>>, 59, <<S_A_padded, S_blank>>),
    Req(S_prompt1, S_meditation, 30, <<S_b>>),
    Req(S_prompt1, S_Focus_padded, 30, <<S_a>>),
    Req(S_prompt2, S_meditation, 30, <<S_a>>),
    [Req(S_prompt1, S_meditation, 30, <<S_a>>) EXCEPT !.is_vip = TRUE] }

\* the tag and the cache key get_music_with_enhanced_prompt computes for a request
TagOf == [r \in Requests |-> normalize_tag(r.tag)]
\* a faulty variant of the cache key: the prompt is part of the hashed payload
KeyOfWithPrompt ==
  [r \in Requests |->
     [music_type |-> normalize_list(r.music_type), mood |-> normalize_list(r.mood),
      instruments |-> normalize_list(r.instruments),
      duration |-> duration_bucket(r.duration), prompt |-> r.prompt]]

KeyOf == [r \in Requests |->
            build_cache_key(r.music_type, r.mood, r.instruments, r.duration)]

Faults == [user : BOOLEAN, cache : BOOLEAN, seq : BOOLEAN, upsert : BOOLEAN]
NoFault == [user |-> TRUE, cache |-> TRUE, seq |-> TRUE, upsert |-> TRUE]
Outcomes == {"gen_fail", "upload_fail", "insert_fail", "upsert_fail", "ok"}

\* ----- state
VARIABLES
  music,        \* table "music": bag of rows [uuid, tag, cache_key]
  music_users,  \* table "music_users": user_id -> last_received_uuid (None: no row)
  storage,      \* bucket "music": the paths <<tag, uuid>> uploaded
  clock,        \* the latest int(time.time()) read
  pc,           \* per request task: "idle" or "generating" (awaiting the Generator)
  job,          \* per task: the arguments and minted uuid of its _generate_new call
  resp,         \* the outcome of the latest handler step
  lastRet,      \* uuid of the asset the latest successful serve returned to Observed
  served,       \* the uuids returned to Observed so far
  faults,       \* the number of store, storage and Generator calls that failed so far
  built,        \* a pure function applied: its arguments and, once computed, its result
  accounts,     \* table "music_users": bag of the rows sign-up inserted, [email]
  signup        \* per server process: the position of its sign_up call and its email

vars == <<music, music_users, storage, clock, pc, job, resp, lastRet, served, faults,
          built, accounts, signup>>

RandBase == NumRand + 1
MkUuid(epoch, rand) == epoch * RandBase + rand

NoJob == [user |-> "", tag |-> <<>>, cache_key |-> <<>>, uuid |-> None]

Rows == BagToSet(music)

SetMin(S) == CHOOSE x \in S : \A y \in S : x <= y

\* a faulty variant of the cached tracks: eq("cache_key", cache_key) alone, without
\* eq("tag", tag)
CachedTracksOfAnyTag(rows, tag, cache_key) ==
  {r.uuid : r \in {q \in rows : q.cache_key = cache_key}}

\* select("*").eq("cache_key", k).eq("tag", tag).order("uuid") on the rows of
\* table "music": the uuids of the tracks found (iterated in ascending order)
CachedTracks(rows, tag, cache_key) ==
  {r.uuid : r \in {q \in rows : q.tag = tag /\ q.cache_key = cache_key}}

\* ----- faulty variants of the selection, which the properties must tell apart
\* the exact phase without the comparison with last_received_uuid
FirstTrack(cached_tracks, last_received_uuid) ==
  IF cached_tracks = {} THEN None ELSE SetMin(cached_tracks)

\* the fallback without gt("uuid", last_uuid)
get_next_without_gt(rows, tag, exclude_uuids, last_uuid) ==
  LET ok == {r.uuid : r \in {q \in rows : q.tag = tag}} \ exclude_uuids
  IN IF ok = {} THEN None ELSE SetMin(ok)

\* the fallback without eq("tag", tag)
get_next_without_tag(rows, tag, exclude_uuids, last_uuid) ==
  LET ok == {r.uuid : r \in {q \in rows : last_uuid = None \/ q.uuid > last_uuid}}
              \ exclude_uuids
  IN IF ok = {} THEN None ELSE SetMin(ok)

\* ----- the selection
\* for track in cached_tracks: if track["uuid"] != last_received_uuid: return it
FirstNotLast(cached_tracks, last_received_uuid) ==
  LET ok == {x \in cached_tracks : x # last_received_uuid}
  IN IF ok = {} THEN None ELSE SetMin(ok)

\* _get_next_by_tag: eq("tag", tag).order("uuid"), gt("uuid", last) when last is set,
\* the first track not in exclude_uuids
get_next_by_tag(rows, tag, exclude_uuids, last_uuid) ==
  LET tracks == {r.uuid : r \in {q \in rows : q.tag = tag /\
                                   (last_uuid = None \/ q.uuid > last_uuid)}}
      ok == tracks \ exclude_uuids
  IN IF ok = {} THEN None ELSE SetMin(ok)

\* a faulty variant of _update_user: the row is written only when the uuid is
\* greater than the one it holds
update_user_if_greater(user_id, uuid, ok) ==
  IF ok /\ (music_users[user_id] = None \/ uuid > music_users[user_id])
  THEN [music_users EXCEPT ![user_id] = uuid]
  ELSE music_users

\* a faulty variant of _update_user: the write is not confined to the user's row
update_every_user(user_id, uuid, ok) ==
  IF ok THEN [u \in Users |-> uuid] ELSE music_users

\* _update_user: upsert keyed by user_id; a failed upsert is printed and dropped
update_user(user_id, uuid, ok) ==
  IF ok THEN [music_users EXCEPT ![user_id] = uuid] ELSE music_users

InFlight == {t \in Tasks : pc[t] = "generating"}

Init ==
  /\ music = EmptyBag
  /\ music_users = [u \in Users |-> None]
  /\ storage = {}
  /\ clock = 0
  /\ pc = [t \in Tasks |-> "idle"]
  /\ job = [t \in Tasks |-> NoJob]
  /\ resp = [kind |-> "none", user |-> "", uuid |-> None,
          tag |-> <<>>, cache_key |-> <<>>, f |-> NoFault, prev |-> None]
  /\ lastRet = None
  /\ served = {}
  /\ faults = 0
  /\ built = <<>>
  /\ accounts = EmptyBag
  /\ signup = [w \in Workers |-> NoCall]

\* the calls of one serve that fail, counted against the model's bound
Failed(f) == {k \in {"user", "cache", "seq", "upsert"} : ~f[k]}
Fail(f) ==
  /\ faults + Cardinality(Failed(f)) <= MaxFaults
  /\ faults' = faults + Cardinality(Failed(f))

\* _response(track, cached): what the caller gets, with the call it answers (the
\* requester, the normalized tag and cache key, the store calls that failed, the
\* requester's music_users row before the call), and
\* the record of who was served what
response(kind, user_id, uuid, tag, cache_key, f) ==
  /\ resp' = [kind |-> kind, user |-> user_id, uuid |-> uuid,
              tag |-> tag, cache_key |-> cache_key, f |-> f,
              prev |-> music_users[user_id]]
  /\ lastRet' = IF uuid # None /\ user_id = Observed THEN uuid ELSE lastRet
  /\ served' = IF uuid # None /\ user_id = Observed THEN served \cup {uuid} ELSE served

\* room for one more generation within the model's bound
Room ==
  /\ BagCardinality(music) + Cardinality(InFlight) < MaxTracks
  /\ Cardinality(storage) + Cardinality(InFlight) < MaxTracks

\* the track get_music_with_enhanced_prompt finds in the ledger for a request, if
\* any: the first cached track that is not the user's last one, else the next of
\* the tag
select(user_id, request, f) ==
  LET tag == TagOf[request]
      cache_key == KeyOf[request]
      last_received_uuid == IF f.user THEN music_users[user_id] ELSE None
      cached_tracks == IF f.cache THEN CachedTracks(Rows, tag, cache_key) ELSE {}
      track == FirstNotLast(cached_tracks, last_received_uuid)
      next_track == IF f.seq
                    THEN get_next_by_tag(Rows, tag, cached_tracks, last_received_uuid)
                    ELSE None
  IN [track |-> track, next_track |-> IF track # None THEN None ELSE next_track]

\* get_music_with_enhanced_prompt up to its first suspension point: a hit returns,
\* a miss enters _generate_new, mints the uuid and awaits the Generator
Serve(t, user_id, request, f) ==
  /\ pc[t] = "idle"
  /\ UNCHANGED <<built, accounts, signup>>
  /\ Fail(f)
  /\ LET tag == TagOf[request]
         cache_key == KeyOf[request]
         found == select(user_id, request, f)
         track == found.track
         next_track == found.next_track
     IN IF track # None
        THEN /\ f.seq
             /\ music_users' = update_user(user_id, track, f.upsert)
             /\ response("exact", user_id, track, tag, cache_key, f)
             /\ UNCHANGED <<music, storage, clock, pc, job>>
        ELSE IF next_track # None
        THEN /\ music_users' = update_user(user_id, next_track, f.upsert)
             /\ response("seq", user_id, next_track, tag, cache_key, f)
             /\ UNCHANGED <<music, storage, clock, pc, job>>
        ELSE /\ f.upsert
             /\ Room
             /\ \E epoch \in clock..MaxClock, rand \in 1..NumRand :
                  /\ clock' = epoch
                  /\ job' = [job EXCEPT ![t] =
                               [user |-> user_id, tag |-> tag, cache_key |-> cache_key,
                                uuid |-> MkUuid(epoch, rand)]]
             /\ pc' = [pc EXCEPT ![t] = "generating"]
             /\ response("miss", user_id, None, tag, cache_key, f)
             /\ UNCHANGED <<music, music_users, storage>>

\* a faulty variant of _generate_new: the upload's result is not checked, the
\* insert and the cursor update follow a failed upload
GenerateReturnUploadUnchecked(t, outcome) ==
  /\ pc[t] = "generating"
  /\ UNCHANGED <<built, accounts, signup>>
  /\ IF outcome = "ok" THEN faults' = faults
     ELSE faults < MaxFaults /\ faults' = faults + 1
  /\ LET j == job[t]
         track == [uuid |-> j.uuid, tag |-> j.tag, cache_key |-> j.cache_key]
         uploaded == outcome \notin {"gen_fail", "upload_fail"}
         inserted == outcome \in {"upload_fail", "upsert_fail", "ok"}
     IN /\ storage' = IF uploaded THEN storage \cup {<<j.tag, j.uuid>>} ELSE storage
        /\ music' = IF inserted THEN music (+) SetToBag({track}) ELSE music
        /\ music_users' = IF inserted
                           THEN update_user(j.user, j.uuid, outcome # "upsert_fail")
                           ELSE music_users
        /\ IF inserted
           THEN response("generated", j.user, j.uuid, j.tag, j.cache_key,
                         [NoFault EXCEPT !.upsert = (outcome # "upsert_fail")])
           ELSE response("error", j.user, None, j.tag, j.cache_key, NoFault)
  /\ pc' = [pc EXCEPT ![t] = "idle"]
  /\ job' = [job EXCEPT ![t] = NoJob]
  /\ UNCHANGED clock

\* a faulty variant of _generate_new: the cursor is advanced before the insert, so
\* a failed insert leaves it on the id that was never inserted
GenerateReturnAdvanceFirst(t, outcome) ==
  /\ pc[t] = "generating"
  /\ UNCHANGED <<built, accounts, signup>>
  /\ IF outcome = "ok" THEN faults' = faults
     ELSE faults < MaxFaults /\ faults' = faults + 1
  /\ LET j == job[t]
         track == [uuid |-> j.uuid, tag |-> j.tag, cache_key |-> j.cache_key]
         uploaded == outcome \notin {"gen_fail", "upload_fail"}
         inserted == outcome \in {"upsert_fail", "ok"}
     IN /\ storage' = IF uploaded THEN storage \cup {<<j.tag, j.uuid>>} ELSE storage
        /\ music' = IF inserted THEN music (+) SetToBag({track}) ELSE music
        /\ music_users' = IF uploaded
                           THEN update_user(j.user, j.uuid, outcome # "upsert_fail")
                           ELSE music_users
        /\ IF inserted
           THEN response("generated", j.user, j.uuid, j.tag, j.cache_key,
                         [NoFault EXCEPT !.upsert = (outcome = "ok")])
           ELSE response("error", j.user, None, j.tag, j.cache_key, NoFault)
  /\ pc' = [pc EXCEPT ![t] = "idle"]
  /\ job' = [job EXCEPT ![t] = NoJob]
  /\ UNCHANGED clock

\* a faulty variant of _generate_new: a failure is answered with an asset of the
\* category taken from the ledger, when there is one
GenerateReturnSilentFallback(t, outcome) ==
  /\ pc[t] = "generating"
  /\ UNCHANGED <<built, accounts, signup>>
  /\ IF outcome = "ok" THEN faults' = faults
     ELSE faults < MaxFaults /\ faults' = faults + 1
  /\ LET j == job[t]
         track == [uuid |-> j.uuid, tag |-> j.tag, cache_key |-> j.cache_key]
         uploaded == outcome \notin {"gen_fail", "upload_fail"}
         inserted == outcome \in {"upsert_fail", "ok"}
         substitute == get_next_by_tag(Rows, j.tag, {}, None)
     IN /\ storage' = IF uploaded THEN storage \cup {<<j.tag, j.uuid>>} ELSE storage
        /\ music' = IF inserted THEN music (+) SetToBag({track}) ELSE music
        /\ music_users' = IF inserted
                           THEN update_user(j.user, j.uuid, outcome = "ok")
                           ELSE music_users
        /\ IF inserted
           THEN response("generated", j.user, j.uuid, j.tag, j.cache_key,
                         [NoFault EXCEPT !.upsert = (outcome = "ok")])
           ELSE IF substitute # None
           THEN response("seq", j.user, substitute, j.tag, j.cache_key, NoFault)
           ELSE response("error", j.user, None, j.tag, j.cache_key, NoFault)
  /\ pc' = [pc EXCEPT ![t] = "idle"]
  /\ job' = [job EXCEPT ![t] = NoJob]
  /\ UNCHANGED clock

\* a faulty variant of _generate_new: the row is written by an upsert on uuid, which
\* replaces a row that carries the uuid
GenerateReturnUpsertsRow(t, outcome) ==
  /\ pc[t] = "generating"
  /\ UNCHANGED <<built, accounts, signup>>
  /\ IF outcome = "ok" THEN faults' = faults
     ELSE faults < MaxFaults /\ faults' = faults + 1
  /\ LET j == job[t]
         track == [uuid |-> j.uuid, tag |-> j.tag, cache_key |-> j.cache_key]
         uploaded == outcome \notin {"gen_fail", "upload_fail"}
         inserted == outcome \in {"upsert_fail", "ok"}
         others == {q \in Rows : q.uuid # j.uuid}
     IN /\ storage' = IF uploaded THEN storage \cup {<<j.tag, j.uuid>>} ELSE storage
        /\ music' = IF inserted
                     THEN [q \in others |-> CopiesIn(q, music)] (+) SetToBag({track})
                     ELSE music
        /\ music_users' = IF inserted
                           THEN update_user(j.user, j.uuid, outcome = "ok")
                           ELSE music_users
        /\ IF inserted
           THEN response("generated", j.user, j.uuid, j.tag, j.cache_key,
                         [NoFault EXCEPT !.upsert = (outcome = "ok")])
           ELSE response("error", j.user, None, j.tag, j.cache_key, NoFault)
  /\ pc' = [pc EXCEPT ![t] = "idle"]
  /\ job' = [job EXCEPT ![t] = NoJob]
  /\ UNCHANGED clock

\* a faulty variant of _generate_new for the race properties: the insert is
\* skipped when the ledger already has a row with the tag and cache key
GenerateReturnDeduplicated(t, outcome) ==
  /\ pc[t] = "generating"
  /\ UNCHANGED <<built, accounts, signup>>
  /\ IF outcome = "ok" THEN faults' = faults
     ELSE faults < MaxFaults /\ faults' = faults + 1
  /\ LET j == job[t]
         track == [uuid |-> j.uuid, tag |-> j.tag, cache_key |-> j.cache_key]
         uploaded == outcome \notin {"gen_fail", "upload_fail"}
         inserted == outcome \in {"upsert_fail", "ok"}
         present == CachedTracks(Rows, j.tag, j.cache_key) # {}
     IN /\ storage' = IF uploaded THEN storage \cup {<<j.tag, j.uuid>>} ELSE storage
        /\ music' = IF inserted /\ ~present THEN music (+) SetToBag({track}) ELSE music
        /\ music_users' = IF inserted
                           THEN update_user(j.user, j.uuid, outcome = "ok")
                           ELSE music_users
        /\ IF inserted
           THEN response("generated", j.user, j.uuid, j.tag, j.cache_key,
                         [NoFault EXCEPT !.upsert = (outcome = "ok")])
           ELSE response("error", j.user, None, j.tag, j.cache_key, NoFault)
  /\ pc' = [pc EXCEPT ![t] = "idle"]
  /\ job' = [job EXCEPT ![t] = NoJob]
  /\ UNCHANGED clock

\* _generate_new after the Generator call: upload, insert, _update_user, _response;
\* the first failing step raises "Music generation error"
GenerateReturn(t, outcome) ==
  /\ pc[t] = "generating"
  /\ UNCHANGED <<built, accounts, signup>>
  /\ IF outcome = "ok" THEN faults' = faults
     ELSE faults < MaxFaults /\ faults' = faults + 1
  /\ LET j == job[t]
         track == [uuid |-> j.uuid, tag |-> j.tag, cache_key |-> j.cache_key]
         uploaded == outcome \notin {"gen_fail", "upload_fail"}
         inserted == outcome \in {"upsert_fail", "ok"}
     IN /\ storage' = IF uploaded THEN storage \cup {<<j.tag, j.uuid>>} ELSE storage
        /\ music' = IF inserted THEN music (+) SetToBag({track}) ELSE music
        /\ music_users' = IF inserted
                           THEN update_user(j.user, j.uuid, outcome = "ok")
                           ELSE music_users
        /\ IF inserted
           THEN response("generated", j.user, j.uuid, j.tag, j.cache_key,
                         [NoFault EXCEPT !.upsert = (outcome = "ok")])
           ELSE response("error", j.user, None, j.tag, j.cache_key, NoFault)
  /\ pc' = [pc EXCEPT ![t] = "idle"]
  /\ job' = [job EXCEPT ![t] = NoJob]
  /\ UNCHANGED clock

\* request tasks are interchangeable: a new request takes the first idle one
TaskOrd == [t \in Tasks |-> IF t = "t1" THEN 1 ELSE 2]
FirstIdle(t) == pc[t] = "idle" /\ \A t2 \in Tasks : pc[t2] = "idle" => TaskOrd[t] <= TaskOrd[t2]

ServeAny ==
  \E t \in Tasks, u \in Users, r \in Requests, f \in Faults :
    FirstIdle(t) /\ Serve(t, u, r, f)

GenerateReturnAny == \E t \in Tasks, o \in Outcomes : GenerateReturn(t, o)

Next == ServeAny \/ GenerateReturnAny

Spec == Init /\ [][Next]_vars

\* sequential operation: no serve of a user starts while another of that user is in flight
ServeSeq ==
  \E t \in Tasks, u \in Users, r \in Requests, f \in Faults :
    /\ FirstIdle(t)
    /\ \A t2 \in InFlight : job[t2].user # u
    /\ Serve(t, u, r, f)

NextSeq == ServeSeq \/ GenerateReturnAny

SeqSpec == Init /\ [][NextSeq]_vars

TypeOK ==
  /\ clock \in 0..MaxClock
  /\ pc \in [Tasks -> {"idle", "generating"}]
  /\ BagCardinality(music) <= MaxTracks
  /\ faults \in 0..MaxFaults

\* ----- the prompt enhancer
S_style == <<115, 116, 121, 108, 101, 58, 32>>
S_mood == <<109, 111, 111, 100, 58, 32>>
S_instruments == <<105, 110, 115, 116, 114, 117, 109, 101, 110, 116, 115, 58, 32>>
S_comma == <<44, 32>>

\* sep.join(strs)
RECURSIVE Join(_, _)
Join(sep, strs) ==
  IF strs = <<>> THEN <<>>
  ELSE IF Len(strs) = 1 THEN strs[1]
  ELSE strs[1] \o sep \o Join(sep, Tail(strs))

enhance_prompt_mood_first(prompt, music_type, mood, instruments) ==
  LET parts0 == <<prompt>>
      parts1 == IF mood # <<>>
                  THEN Append(parts0, S_mood \o Join(S_comma, mood)) ELSE parts0
      parts2 == IF music_type # <<>>
                  THEN Append(parts1, S_style \o Join(S_comma, music_type)) ELSE parts1
      parts3 == IF instruments # <<>>
                  THEN Append(parts2, S_instruments \o Join(S_comma, instruments))
                  ELSE parts2
  IN Join(S_comma, parts3)

enhance_prompt(prompt, music_type, mood, instruments) ==
  LET parts0 == <<prompt>>
      parts1 == IF music_type # <<>>
                  THEN Append(parts0, S_style \o Join(S_comma, music_type)) ELSE parts0
      parts2 == IF mood # <<>>
                  THEN Append(parts1, S_mood \o Join(S_comma, mood)) ELSE parts1
      parts3 == IF instruments # <<>>
                  THEN Append(parts2, S_instruments \o Join(S_comma, instruments))
                  ELSE parts2
  IN Join(S_comma, parts3)

\* the attribute lists the pure functions are applied to
MaxList == 2
Entries == {S_a, S_A_padded, S_b, S_blank}
Lists == UNION {[1..n -> Entries] : n \in 0..MaxList}
Prompts == {<<>>, S_prompt1, S_prompt2}
PromptArgs ==
  [prompt : Prompts,
   music_type : Lists,
   mood : {<<>>, <<S_b>>, <<S_a, S_blank>>}, instruments : {<<>>, <<S_a>>, <<S_b, S_a>>}]

\* one application, its arguments chosen, nothing rendered yet
PromptInit ==
  /\ music = EmptyBag
  /\ music_users = [u \in Users |-> None]
  /\ storage = {}
  /\ clock = 0
  /\ pc = [t \in Tasks |-> "idle"]
  /\ job = [t \in Tasks |-> NoJob]
  /\ resp = [kind |-> "none", user |-> "", uuid |-> None,
          tag |-> <<>>, cache_key |-> <<>>, f |-> NoFault, prev |-> None]
  /\ lastRet = None
  /\ served = {}
  /\ faults = 0
  /\ built \in [args : PromptArgs, enhanced_prompt : {<<>>}, done : {FALSE}]
  /\ accounts = EmptyBag
  /\ signup = [w \in Workers |-> NoCall]

EnhancePrompt ==
  /\ ~built.done
  /\ built' = [built EXCEPT !.enhanced_prompt =
                              enhance_prompt(built.args.prompt, built.args.music_type,
                                             built.args.mood, built.args.instruments),
                            !.done = TRUE]
  /\ UNCHANGED <<music, music_users, storage, clock, pc, job, resp, lastRet, served, faults,
               accounts, signup>>

PromptNext == EnhancePrompt

PromptSpec == PromptInit /\ [][PromptNext]_vars

\* ----- sign-up
\* AuthService.sign_up makes two store calls, the select on the email and the
\* insert, with nothing held between them; the calls of sign_up running in two
\* server processes interleave at the store.
\* The select: a row with the email raises "User already exists"; a select that
\* raises ends the call with an error too.
SignUpSelect(w, email, ok) ==
  /\ signup[w].pc = "idle"
  /\ LET existing == {r \in BagToSet(accounts) : r.email = email}
     IN signup' = [signup EXCEPT ![w] =
                     IF ok /\ existing = {}
                       THEN [pc |-> "insert", email |-> email, result |-> "none"]
                       ELSE [pc |-> "idle", email |-> email, result |-> "error"]]
  /\ UNCHANGED <<music, music_users, storage, clock, pc, job, resp, lastRet, served, faults,
               built, accounts>>

\* The insert: the row is added and returned, or the insert raises and the call
\* ends with an error.
SignUpInsert(w, ok) ==
  /\ signup[w].pc = "insert"
  /\ LET row == [email |-> signup[w].email]
     IN /\ accounts' = IF ok THEN accounts (+) SetToBag({row}) ELSE accounts
        /\ signup' = [signup EXCEPT ![w].pc = "idle",
                                    ![w].result = IF ok THEN "created" ELSE "error"]
  /\ UNCHANGED <<music, music_users, storage, clock, pc, job, resp, lastRet, served, faults,
               built>>

SignUpSelectAny == \E w \in Workers, email \in Emails, ok \in BOOLEAN : SignUpSelect(w, email, ok)

SignUpInsertAny == \E w \in Workers, ok \in BOOLEAN : SignUpInsert(w, ok)

SignUpNext == SignUpSelectAny \/ SignUpInsertAny

SignUpSpec == Init /\ [][SignUpNext]_vars

\* ----- cancellation
\* The request task is cancelled while it awaits the Generator: CancelledError is
\* raised at the await, passes the "except Exception" clauses of
\* generate_music_with_config, _generate_new and the endpoint, and ends the task;
\* the upload, the insert and _update_user are not reached.
Cancel(t) ==
  /\ pc[t] = "generating"
  /\ UNCHANGED <<built, accounts, signup>>
  /\ response("cancelled", job[t].user, None, job[t].tag, job[t].cache_key, NoFault)
  /\ pc' = [pc EXCEPT ![t] = "idle"]
  /\ job' = [job EXCEPT ![t] = NoJob]
  /\ UNCHANGED <<music, music_users, storage, clock, faults>>

CancelAny == \E t \in Tasks : Cancel(t)

CancelNext == ServeSeq \/ GenerateReturnAny \/ CancelAny

CancelSpec == Init /\ [][CancelNext]_vars

\* ----- the store calls one by one
\* Spec takes a serve up to the Generator call as one step: within one server
\* process the store calls are synchronous and nothing else runs between them.
\* The store is shared by every server process, and between two processes the
\* calls of two serves interleave.  WorkersSpec takes each store call of a serve
\* as a step of its own; a task is then a request handled by either process.
\* The serves are those of one user and no call fails; what follows the Generator
\* call is as in Spec.

\* user progress: the select on music_users
FetchUser(t, user_id, request) ==
  /\ pc[t] = "idle"
  /\ UNCHANGED <<built, accounts, signup>>
  /\ pc' = [pc EXCEPT ![t] = "fetched"]
  /\ job' = [job EXCEPT ![t] =
               [user |-> user_id, tag |-> TagOf[request], cache_key |-> KeyOf[request],
                uuid |-> None, last |-> music_users[user_id],
                exclude |-> {}, kind |-> "none"]]
  /\ UNCHANGED <<music, music_users, storage, clock, resp, lastRet, served, faults>>

\* cached tracks: the select on music by cache_key and tag, and the loop over it
LookupCache(t) ==
  /\ pc[t] = "fetched"
  /\ UNCHANGED <<built, accounts, signup>>
  /\ LET j == job[t]
         cached_tracks == CachedTracks(Rows, j.tag, j.cache_key)
         track == FirstNotLast(cached_tracks, j.last)
     IN IF track # None
        THEN /\ pc' = [pc EXCEPT ![t] = "picked"]
             /\ job' = [job EXCEPT ![t].uuid = track, ![t].kind = "exact"]
        ELSE /\ pc' = [pc EXCEPT ![t] = "looked"]
             /\ job' = [job EXCEPT ![t].exclude = cached_tracks]
  /\ UNCHANGED <<music, music_users, storage, clock, resp, lastRet, served, faults>>

\* _get_next_by_tag's select on music by tag; with no track left the call enters
\* _generate_new, mints the uuid and awaits the Generator
QueryNextByTag(t) ==
  /\ pc[t] = "looked"
  /\ UNCHANGED <<built, accounts, signup>>
  /\ LET j == job[t]
         next_track == get_next_by_tag(Rows, j.tag, j.exclude, j.last)
     IN IF next_track # None
        THEN /\ pc' = [pc EXCEPT ![t] = "picked"]
             /\ job' = [job EXCEPT ![t].uuid = next_track, ![t].kind = "seq"]
             /\ UNCHANGED <<clock, resp, lastRet, served>>
        ELSE /\ Room
             /\ \E epoch \in clock..MaxClock, rand \in 1..NumRand :
                  /\ clock' = epoch
                  /\ job' = [job EXCEPT ![t] =
                               [user |-> j.user, tag |-> j.tag, cache_key |-> j.cache_key,
                                uuid |-> MkUuid(epoch, rand)]]
             /\ pc' = [pc EXCEPT ![t] = "generating"]
             /\ response("miss", j.user, None, j.tag, j.cache_key, NoFault)
  /\ UNCHANGED <<music, music_users, storage, faults>>

\* a variant of the return of a track: the upsert is conditional on the row still
\* holding the value the call read, and the call fails otherwise
ReturnTrackIfCurrent(t) ==
  /\ pc[t] = "picked"
  /\ UNCHANGED <<built, accounts, signup>>
  /\ LET j == job[t]
     IN IF music_users[j.user] = j.last
        THEN /\ music_users' = update_user(j.user, j.uuid, TRUE)
             /\ resp' = [kind |-> j.kind, user |-> j.user, uuid |-> j.uuid, tag |-> j.tag,
                         cache_key |-> j.cache_key, f |-> NoFault, prev |-> j.last]
             /\ lastRet' = IF j.user = Observed THEN j.uuid ELSE lastRet
             /\ served' = IF j.user = Observed THEN served \cup {j.uuid} ELSE served
        ELSE /\ music_users' = music_users
             /\ resp' = [kind |-> "error", user |-> j.user, uuid |-> None, tag |-> j.tag,
                         cache_key |-> j.cache_key, f |-> NoFault, prev |-> j.last]
             /\ UNCHANGED <<lastRet, served>>
  /\ pc' = [pc EXCEPT ![t] = "idle"]
  /\ job' = [job EXCEPT ![t] = NoJob]
  /\ UNCHANGED <<music, storage, clock, faults>>

\* _update_user's upsert and the return of the track found; resp.prev is the
\* music_users row as the call read it
ReturnTrack(t) ==
  /\ pc[t] = "picked"
  /\ UNCHANGED <<built, accounts, signup>>
  /\ LET j == job[t]
     IN /\ music_users' = update_user(j.user, j.uuid, TRUE)
        /\ resp' = [kind |-> j.kind, user |-> j.user, uuid |-> j.uuid, tag |-> j.tag,
                    cache_key |-> j.cache_key, f |-> NoFault, prev |-> j.last]
        /\ lastRet' = IF j.user = Observed THEN j.uuid ELSE lastRet
        /\ served' = IF j.user = Observed THEN served \cup {j.uuid} ELSE served
  /\ pc' = [pc EXCEPT ![t] = "idle"]
  /\ job' = [job EXCEPT ![t] = NoJob]
  /\ UNCHANGED <<music, storage, clock, faults>>

FetchUserAny == \E t \in Tasks, r \in Requests : FirstIdle(t) /\ FetchUser(t, Observed, r)
LookupCacheAny == \E t \in Tasks : LookupCache(t)
QueryNextByTagAny == \E t \in Tasks : QueryNextByTag(t)
ReturnTrackAny == \E t \in Tasks : ReturnTrack(t)
GeneratedAny == \E t \in Tasks : GenerateReturn(t, "ok")

WorkersNext ==
  \/ FetchUserAny
  \/ LookupCacheAny
  \/ QueryNextByTagAny
  \/ ReturnTrackAny
  \/ GeneratedAny

WorkersSpec == Init /\ [][WorkersNext]_vars

\* ----- build_cache_key on its own
\* the durations and the arguments build_cache_key is applied to
Durations == {0, 59, 60, 61, 180, 181}
KeyArgs ==
  [music_type : Lists, mood : {<<>>, <<S_a>>, <<S_b>>}, instruments : {<<>>},
   duration : Durations]
NoKey == [music_type |-> <<>>, mood |-> <<>>, instruments |-> <<>>, duration |-> ""]

\* two applications, their arguments chosen, no key computed yet
KeyInit ==
  /\ music = EmptyBag
  /\ music_users = [u \in Users |-> None]
  /\ storage = {}
  /\ clock = 0
  /\ pc = [t \in Tasks |-> "idle"]
  /\ job = [t \in Tasks |-> NoJob]
  /\ resp = [kind |-> "none", user |-> "", uuid |-> None,
          tag |-> <<>>, cache_key |-> <<>>, f |-> NoFault, prev |-> None]
  /\ lastRet = None
  /\ served = {}
  /\ faults = 0
  /\ built \in [1..2 -> [args : KeyArgs, key : {NoKey}]]
  /\ accounts = EmptyBag
  /\ signup = [w \in Workers |-> NoCall]

BuildCacheKey(i) ==
  /\ built[i].key = NoKey
  /\ built' = [built EXCEPT ![i].key =
                 build_cache_key(built[i].args.music_type, built[i].args.mood,
                                 built[i].args.instruments, built[i].args.duration)]
  /\ built'[i].key # NoKey
  /\ UNCHANGED <<music, music_users, storage, clock, pc, job, resp, lastRet, served, faults,
               accounts, signup>>

KeyNext == \E i \in 1..2 : BuildCacheKey(i)

KeySpec == KeyInit /\ [][KeyNext]_vars

\* ----- vocabulary of the claims
\* The claims speak of one serve call: resp holds its requester, category (tag),
\* fingerprint (cache_key), outcome and the requester's cursor before it (prev);
\* a serve that returns from the ledger or awaits the Generator leaves music as it
\* found it.
ServeKinds == {"exact", "seq", "miss"}
Hits == {"exact", "seq"}
Returned == {"exact", "seq", "generated"}
ServeDone == resp.kind \in ServeKinds

\* the ledger assets with a (category, fingerprint), and their ids
ExactRows(c, k) == {q \in Rows : q.tag = c /\ q.cache_key = k}
ExactIds(c, k) == {q.uuid : q \in ExactRows(c, k)}
\* exact-phase candidates for a cursor value: an id different from the cursor
Phase1(cursor, c, k) == {x \in ExactIds(c, k) : x # cursor}
\* fallback candidates: category assets outside the exact-match set, ahead of the cursor
Phase2(cursor, c, k) ==
  {q.uuid : q \in {r \in Rows \ ExactRows(c, k) :
                     r.tag = c /\ (cursor = None \/ r.uuid > cursor)}}
Least(S) == CHOOSE x \in S : \A y \in S : x <= y
P1 == Phase1(resp.prev, resp.tag, resp.cache_key)
P2 == Phase2(resp.prev, resp.tag, resp.cache_key)

\* C1: serve invokes the Generator if and only if both selection phases are empty
\* (no (category, fingerprint) asset with an id other than the user's cursor, no
\* other asset of the category ahead of the cursor).
C1_GeneratorIffBothPhasesEmpty ==
  ServeDone => ((resp.kind = "miss") <=> (P1 = {} /\ P2 = {}))

\* C1 holds of every serve whose three lookups succeed.
C1_WhenLookupsSucceed ==
  (ServeDone /\ resp.f.user /\ resp.f.cache /\ resp.f.seq) =>
    ((resp.kind = "miss") <=> (P1 = {} /\ P2 = {}))

\* C1, the divergence: the Generator is awaited although the category holds an
\* asset the fallback had to return.
C1_GeneratorDespiteCandidate == resp.kind = "miss" /\ P2 # {}

\* C2: if the ledger holds a (category, fingerprint) asset whose id differs from
\* the user's cursor, serve returns the smallest-id such asset, makes no Generator
\* call, and sets the user's cursor to that id.
C2_ExactPhase ==
  (ServeDone /\ P1 # {}) =>
    /\ resp.kind \in Hits
    /\ resp.uuid = Least(P1)
    /\ music_users[resp.user] = resp.uuid

\* C2 holds of every serve none of whose store calls fails.
C2_WhenNoCallFails ==
  (ServeDone /\ P1 # {} /\ resp.f = NoFault) =>
    /\ resp.kind \in Hits
    /\ resp.uuid = Least(P1)
    /\ music_users[resp.user] = resp.uuid

\* C2, the divergence: an exact-match asset other than the cursor exists and the
\* exact phase returns the asset the cursor points to.
C2_ReturnsCursorAsset == P1 # {} /\ resp.kind = "exact" /\ resp.uuid = resp.prev

\* C3: when the exact phase yields nothing, serve returns the smallest-id asset of
\* the category that is ahead of the cursor (any, without a cursor) and was not
\* fetched in the exact phase, advances the cursor to it and makes no Generator call.
C3_SequentialFallback ==
  (ServeDone /\ P1 = {} /\ P2 # {}) =>
    /\ resp.kind \in Hits
    /\ resp.uuid = Least(P2)
    /\ music_users[resp.user] = resp.uuid

\* C3 holds of every serve none of whose store calls fails.
C3_WhenNoCallFails ==
  (ServeDone /\ P1 = {} /\ P2 # {} /\ resp.f = NoFault) =>
    /\ resp.kind \in Hits
    /\ resp.uuid = Least(P2)
    /\ music_users[resp.user] = resp.uuid

\* C3, the divergence: the fallback returned its asset and the cursor was not
\* advanced to it.
C3_FallbackWithoutAdvance ==
  /\ resp.kind = "seq" /\ P1 = {} /\ P2 # {} /\ resp.uuid = Least(P2)
  /\ music_users[resp.user] # resp.uuid

\* C4: a miss whose Generator call, upload and insert succeed appends exactly one
\* row carrying the request's category, fingerprint and the minted id, returns it,
\* and leaves the requester's cursor equal to the new id.
C4_GenerateAppendsAndAdvances ==
  [][resp'.kind = "generated" =>
       \E t \in Tasks :
         /\ pc[t] = "generating" /\ pc'[t] = "idle"
         /\ music' = music (+) SetToBag({[uuid |-> job[t].uuid, tag |-> job[t].tag,
                                          cache_key |-> job[t].cache_key]})
         /\ resp'.user = job[t].user /\ resp'.uuid = job[t].uuid
         /\ music_users'[job[t].user] = job[t].uuid]_vars

\* C4 holds of every generation whose cursor upsert succeeds too.
C4_WhenNoCallFails ==
  [][(resp'.kind = "generated" /\ resp'.f = NoFault) =>
       \E t \in Tasks :
         /\ pc[t] = "generating" /\ pc'[t] = "idle"
         /\ music' = music (+) SetToBag({[uuid |-> job[t].uuid, tag |-> job[t].tag,
                                          cache_key |-> job[t].cache_key]})
         /\ resp'.user = job[t].user /\ resp'.uuid = job[t].uuid
         /\ music_users'[job[t].user] = job[t].uuid]_vars

\* C4, the divergence: the generated asset is returned and the requester's cursor
\* is not its id.
C4_GeneratedWithoutAdvance ==
  /\ resp.kind = "generated"
  /\ \E q \in Rows : q.uuid = resp.uuid /\ q.tag = resp.tag /\ q.cache_key = resp.cache_key
  /\ music_users[resp.user] # resp.uuid

\* the cursor value a serve worked with: the stored one, or None when its read failed
Read == IF resp.f.user THEN resp.prev ELSE None

\* C5: in non-overlapping serve calls of one user, two consecutive successful
\* serves never return the same asset id.
C5_NoImmediateRepeat ==
  [][(resp'.kind \in Returned /\ resp'.user = Observed) => resp'.uuid # lastRet]_vars

\* C5 holds of the serves answered from the ledger while no call has failed.
C5_HitsWhenNoCallFails ==
  [][(resp'.kind \in Hits /\ resp'.user = Observed /\ faults' = 0) =>
       resp'.uuid # lastRet]_vars

\* C5, the divergence: the serve returns the asset the user's cursor points to,
\* which is the one the user was served last.
C5_ServedCursorAssetAgain ==
  /\ resp.kind \in Hits /\ resp.user = Observed
  /\ resp.uuid = resp.prev /\ resp.prev \in served

\* C6: no user is served an asset they were already served while the category's
\* ledger still holds an asset that user has not been served.
C6_DistinctBeforeRepeat ==
  [][(resp'.kind \in Returned /\ resp'.user = Observed /\ resp'.uuid \in served) =>
       \A q \in BagToSet(music') : q.tag = resp'.tag => q.uuid \in served]_vars

\* C6 as the code has it: a serve answered from the ledger never returns the asset
\* whose id it read as the user's cursor (older assets are not protected).
C6_NeverTheCursorAsset == resp.kind \in Hits => resp.uuid # Read

\* C6: an exact hit that skipped the cursor's own asset, a smaller-id exact match.
C6_CursorAssetSkipped ==
  /\ resp.kind = "exact" /\ resp.f.user
  /\ resp.prev \in ExactIds(resp.tag, resp.cache_key)
  /\ resp.prev < resp.uuid

\* C7: after any serve that returns an asset to a user, with no other serve of
\* that user in flight, the user's stored cursor equals the asset's id.
C7_CursorUpdatedOnEveryServe ==
  (resp.kind \in Returned /\ \A t \in InFlight : job[t].user # resp.user) =>
    music_users[resp.user] = resp.uuid

\* C7 holds of every serve whose upsert succeeds.
C7_WhenUpsertSucceeds ==
  (resp.kind \in Returned /\ resp.f.upsert) => music_users[resp.user] = resp.uuid

\* C7, the divergence: an asset was returned, the upsert failed, the cursor is stale.
C7_ReturnedWithStaleCursor ==
  /\ resp.kind \in Returned /\ ~resp.f.upsert
  /\ \A t \in InFlight : job[t].user # resp.user
  /\ music_users[resp.user] = resp.prev /\ resp.prev # resp.uuid

\* C8: under sequential operation each user's last_received_uuid never decreases.
C8_CursorMonotone ==
  [][\A u \in Users : music_users'[u] >= music_users[u]]_vars

\* C8 as the code has it: a serve answered by the sequential fallback never leaves
\* the cursor below the cursor value it read (an exact hit may lower it).
C8_FallbackNeverLowers ==
  resp.kind = "seq" => music_users[resp.user] >= Read

\* C8: a fallback hit of a user with a cursor, which moved the cursor forward.
C8_FallbackAdvanced ==
  /\ resp.kind = "seq" /\ resp.f.user /\ resp.prev # None
  /\ music_users[resp.user] = resp.uuid /\ resp.uuid > resp.prev

\* a serve in a category other than the one the requester's cursor points into
CrossCategory ==
  /\ ServeDone /\ resp.prev # None
  /\ \E q \in Rows : q.uuid = resp.prev
  /\ \A q \in Rows : q.uuid = resp.prev => q.tag # resp.tag

\* C9: one cursor per user shared by all categories: a serve in any category
\* overwrites it, and a request in a different category is evaluated against it
\* (exact-phase exclusion, fallback "greater than cursor" filter).
C9_SingleSharedCursor ==
  /\ resp.kind \in Hits => music_users[resp.user] = resp.uuid
  /\ CrossCategory =>
       /\ resp.kind = "exact" => resp.uuid # resp.prev
       /\ resp.kind = "seq" => resp.uuid > resp.prev
       /\ resp.kind = "miss" => P2 = {}

\* C9 holds of every serve none of whose store calls fails.
C9_WhenNoCallFails ==
  resp.f = NoFault =>
    /\ resp.kind \in Hits => music_users[resp.user] = resp.uuid
    /\ CrossCategory =>
         /\ resp.kind = "exact" => resp.uuid # resp.prev
         /\ resp.kind = "seq" => resp.uuid > resp.prev
         /\ resp.kind = "miss" => P2 = {}

\* C9, the divergence: with the cursor in another category, the fallback returns
\* an asset behind the cursor.
C9_EvaluatedWithoutCursor ==
  CrossCategory /\ resp.kind = "seq" /\ resp.uuid < resp.prev

\* what a user without a cursor is served for (category, fingerprint), None: a miss
FreshChoice(c, k) ==
  IF Phase1(None, c, k) # {} THEN Least(Phase1(None, c, k))
  ELSE IF Phase2(None, c, k) # {} THEN Least(Phase2(None, c, k))
  ELSE None
CategoryIds(c) == {q.uuid : q \in {r \in Rows : r.tag = c}}

\* C10: what a user is served in category c is determined by the ledger of c and
\* the user's earlier serves in c, whatever they were served in other categories;
\* so a user never yet served in c is served what a user without a cursor is.
C10_CategoriesIndependent ==
  [][(resp'.kind \in ServeKinds /\ resp'.user = Observed
        /\ served \cap CategoryIds(resp'.tag) = {}) =>
       resp'.uuid = FreshChoice(resp'.tag, resp'.cache_key)]_vars

\* C10 as the code has it: the outcome is the selection over the rows of the
\* requested category alone, for the request's fingerprint and the single cursor
\* the serve read; rows of other categories have no part in it.
C10_OnlyCategoryRowsAndCursor ==
  ServeDone =>
    LET rowsC == {q \in Rows : q.tag = resp.tag}
        cached == IF resp.f.cache
                  THEN CachedTracks(rowsC, resp.tag, resp.cache_key) ELSE {}
        track == FirstNotLast(cached, Read)
        next_track == IF resp.f.seq
                      THEN get_next_by_tag(rowsC, resp.tag, cached, Read) ELSE None
    IN resp.uuid = IF track # None THEN track ELSE next_track

\* C10: with the cursor in another category and no call failing, the serve misses
\* although the category holds an asset a user without a cursor would be served.
C10_CursorOfOtherCategoryDecides ==
  /\ CrossCategory /\ resp.f = NoFault /\ faults = 0
  /\ resp.kind = "miss" /\ FreshChoice(resp.tag, resp.cache_key) # None

\* ----- failures of the generation path
\* C11: if the Generator call or the upload fails during a miss, serve fails with
\* an error and persists nothing: the ledger, the object store and every cursor
\* are as they were (the miss itself, before the Generator call, writes nothing).
C11_FailedGenerationPersistsNothing ==
  [][(\A t \in Tasks, o \in {"gen_fail", "upload_fail"} :
          GenerateReturn(t, o) =>
            (/\ resp'.kind = "error" /\ resp'.uuid = None /\ resp'.user = job[t].user
             /\ music' = music /\ music_users' = music_users /\ storage' = storage))
      /\ (resp'.kind = "miss" =>
            (music' = music /\ music_users' = music_users /\ storage' = storage))]_vars

\* C11: a generation failed for a user who has a cursor, the ledger is not empty,
\* no blob lacks its row, and the cursor is the one the user had.
C11_FailedWithLedgerAndCursorIntact ==
  /\ resp.kind = "error" /\ music # EmptyBag
  /\ resp.prev # None /\ music_users[resp.user] = resp.prev
  /\ \A p \in storage : \E q \in Rows : p = <<q.tag, q.uuid>>

\* C12: a store failure during candidate selection (cursor read, exact query,
\* sequential query) makes serve fail the request: it neither selects an asset
\* nor goes on to the Generator.
C12_LookupFailureFailsServe ==
  (~resp.f.user \/ ~resp.f.cache \/ ~resp.f.seq) => resp.kind = "error"

\* C12, the divergence: a lookup failed and the serve awaits the Generator.
C12_GeneratorAfterFailedLookup ==
  resp.kind = "miss" /\ (~resp.f.user \/ ~resp.f.cache \/ ~resp.f.seq)

\* C13: if the insert fails after a successful upload, serve fails with an error,
\* the blob is in the object store, no row is added to the ledger (so no row
\* refers to the blob when its id is new to the category), and no cursor moves.
C13_FailedInsertLeavesOrphanBlob ==
  [][\A t \in Tasks :
       GenerateReturn(t, "insert_fail") =>
         (/\ resp'.kind = "error" /\ resp'.uuid = None /\ resp'.user = job[t].user
          /\ <<job[t].tag, job[t].uuid>> \in storage'
          /\ music' = music
          /\ music_users' = music_users
          /\ (\A q \in Rows : ~(q.tag = job[t].tag /\ q.uuid = job[t].uuid)) =>
               \A q \in BagToSet(music') : <<q.tag, q.uuid>> # <<job[t].tag, job[t].uuid>>)]_vars

\* C13: a serve failed, a blob of its category has no ledger row, and the
\* requester's cursor is the one held before and is not the blob's id.
C13_OrphanBlobAfterError ==
  /\ resp.kind = "error"
  /\ music_users[resp.user] = resp.prev
  /\ \E p \in storage :
       /\ p[1] = resp.tag
       /\ \A q \in Rows : <<q.tag, q.uuid>> # p
       /\ music_users[resp.user] # p[2]

\* C14: no retry and no silent fallback: a failure of the Generator call, of the
\* upload or of the insert ends the serve call with an error and no asset, and
\* starts no further Generator call (the task is idle, no other task is touched);
\* one serve call thus awaits the Generator at most once.
C14_FailureSurfacesWithoutRetry ==
  [][\A t \in Tasks, o \in {"gen_fail", "upload_fail", "insert_fail"} :
       GenerateReturn(t, o) =>
         (/\ resp'.kind = "error" /\ resp'.uuid = None /\ resp'.user = job[t].user
          /\ pc'[t] = "idle" /\ job'[t] = NoJob
          /\ \A t2 \in Tasks \ {t} : pc'[t2] = pc[t2] /\ job'[t2] = job[t2])]_vars

\* C14: a serve failed although the ledger holds an asset of the requested
\* category, and no Generator call is pending.
C14_ErrorThoughCategoryHasAsset ==
  /\ resp.kind = "error" /\ InFlight = {}
  /\ \E q \in Rows : q.tag = resp.tag

\* ----- races
\* the number of ledger rows, copies counted, with a (tag, cache key)
KeyCount(m, c, k) ==
  LET rows == {q \in BagToSet(m) : q.tag = c /\ q.cache_key = k}
  IN BagCardinality([q \in rows |-> CopiesIn(q, m)])

\* C15: duplicate-generation race.  Nothing deduplicates: every generation whose
\* insert succeeds adds one row for its (tag, cache key), whatever the ledger
\* holds; so two overlapping misses of one user for one key leave two rows.
C15_EveryGenerationAddsARow ==
  [][\A t \in Tasks, o \in {"ok", "upsert_fail"} :
       GenerateReturn(t, o) =>
         KeyCount(music', job[t].tag, job[t].cache_key) =
           KeyCount(music, job[t].tag, job[t].cache_key) + 1]_vars

\* C15: two serve calls of one user for one (tag, cache key) overlapped and both
\* missed: the one whose uuid was minted later has just inserted its row, the
\* other still awaits the Generator.
C15_DuplicateGenerationRace ==
  /\ resp.kind = "generated"
  /\ \E t \in InFlight :
       /\ job[t].user = resp.user
       /\ job[t].tag = resp.tag /\ job[t].cache_key = resp.cache_key
       /\ job[t].uuid < resp.uuid
       /\ resp.uuid \in ExactIds(resp.tag, resp.cache_key)


\* C16: duplicate-serve race.  A call that has found a track in the ledger returns
\* it and writes it as the user's cursor whatever the cursor row holds by then:
\* the row is not read again between the select on music_users and the upsert.
C16_SelectionReturnedWhateverTheCursor ==
  [][\A t \in Tasks :
       ReturnTrack(t) =>
         /\ resp'.kind \in Hits
         /\ resp'.uuid = job[t].uuid
         /\ resp'.prev = job[t].last
         /\ music_users'[job[t].user] = job[t].uuid]_vars

\* C16: one call of a user has returned an asset of the ledger, and another call of
\* that user, which read the same cursor value, holds the same asset to return; the
\* cursor it read is stale, the row now holds the asset.
C16_DuplicateServeRace ==
  /\ resp.kind \in Hits
  /\ music_users[resp.user] = resp.uuid
  /\ \E q \in Rows : q.uuid = resp.uuid /\ q.tag = resp.tag
  /\ \E t \in Tasks :
       /\ pc[t] = "picked"
       /\ job[t].user = resp.user
       /\ job[t].last = resp.prev
       /\ job[t].uuid = resp.uuid
       /\ job[t].last # music_users[resp.user]


\* C17: concurrent misses for one new (user, category, fingerprint) generate one
\* asset: the serves of one user exclude each other, and at most one generation is
\* in flight per (tag, cache key).
C17_OneGenerationInFlight ==
  \A t1 \in InFlight : \A t2 \in InFlight \ {t1} :
    /\ job[t1].user # job[t2].user
    /\ ~(job[t1].tag = job[t2].tag /\ job[t1].cache_key = job[t2].cache_key)

\* C17: two serves of one user for one (tag, cache key) that has no row in the
\* ledger both await the Generator.
C17_TwoGenerationsForNewKey ==
  \E t1 \in InFlight : \E t2 \in InFlight \ {t1} :
    /\ job[t1].user = job[t2].user
    /\ job[t1].tag = job[t2].tag /\ job[t1].cache_key = job[t2].cache_key
    /\ ExactRows(job[t1].tag, job[t1].cache_key) = {}


\* ----- the ledger
\* C18: asset ids are globally unique: no two ledger rows share a uuid.
C18_IdsUnique ==
  /\ \A q \in Rows : CopiesIn(q, music) = 1
  /\ \A q1 \in Rows, q2 \in Rows : q1.uuid = q2.uuid => q1 = q2

\* C18: two generations of one clock second drew the same suffix; their rows, of
\* different categories and so with different blobs, carry one uuid.
C18_TwoAssetsShareId ==
  \E q1 \in Rows, q2 \in Rows :
    /\ q1.uuid = q2.uuid /\ q1.tag # q2.tag
    /\ <<q1.tag, q1.uuid>> \in storage /\ <<q2.tag, q2.uuid>> \in storage


\* C19: the ledger is append-only: no step removes or changes a row, and a row is
\* added only by a call returning from the Generator, which adds its own track.
C19_LedgerAppendOnly ==
  [][/\ music \sqsubseteq music'
     /\ music' # music =>
          \E t \in InFlight :
            /\ pc'[t] = "idle"
            /\ music' = music (+) SetToBag({[uuid |-> job[t].uuid, tag |-> job[t].tag,
                                             cache_key |-> job[t].cache_key]})]_vars

\* C19: a serve was answered from a ledger of several rows, the generated ones
\* among them.
C19_ServedFromGrownLedger ==
  /\ resp.kind \in Hits
  /\ BagCardinality(music) >= 2
  /\ \E q \in Rows : q.uuid = resp.uuid /\ q.tag = resp.tag
  /\ \A p \in storage : \E q \in Rows : p = <<q.tag, q.uuid>>


\* ----- the cache key
\* the number of entries of a list that, trimmed and lowercased, are the string s
Occurrences(l, s) ==
  Cardinality({i \in 1..Len(l) : Strip(l[i]) # <<>> /\ Lower(Strip(l[i])) = s})
\* two lists with the same entries once trimmed, lowercased and rid of empties,
\* whatever their order
SameEntries(l1, l2) ==
  \A s \in {Lower(Strip(e)) : e \in Entries} : Occurrences(l1, s) = Occurrences(l2, s)
SameBand(d1, d2) ==
  \/ d1 < 60 /\ d2 < 60
  \/ d1 >= 60 /\ d1 <= 180 /\ d2 >= 60 /\ d2 <= 180
  \/ d1 > 180 /\ d2 > 180

\* C20: two inputs whose attribute lists have the same entries after trimming,
\* lowercasing and dropping empties, in any order, and whose durations fall in one
\* band get the same cache key.
C20_KeyInvariant ==
  (built # <<>> /\ built[1].key # NoKey /\ built[2].key # NoKey) =>
    LET a == built[1].args
        b == built[2].args
    IN (/\ SameEntries(a.music_type, b.music_type)
        /\ SameEntries(a.mood, b.mood)
        /\ SameEntries(a.instruments, b.instruments)
        /\ SameBand(a.duration, b.duration)) => built[1].key = built[2].key

\* C20: two inputs that differ in the order, case and padding of their entries and
\* in the duration within the band, and their one key.
C20_PermutedInputsOneKey ==
  /\ built # <<>>
  /\ built[1].args.music_type = <<S_a, S_b>> /\ built[1].args.duration = 60
  /\ built[2].args.music_type = <<S_b, S_A_padded>> /\ built[2].args.duration = 180
  /\ built[1].args.mood = built[2].args.mood
  /\ built[1].key # NoKey
  /\ built[1].key = built[2].key


\* the band of a duration as the specification words it
Band(d) ==
  CASE d < 60 -> "short"
    [] d >= 60 /\ d <= 180 -> "medium"
    [] d > 180 -> "long"

\* C21: a duration below 60 is keyed "short", one from 60 to 180 "medium", one
\* above 180 "long", and two inputs that differ only by durations of one band get
\* the same key.
C21_DurationBanding ==
  built # <<>> =>
    /\ \A i \in 1..2 :
         built[i].key # NoKey => built[i].key.duration = Band(built[i].args.duration)
    /\ (/\ built[1].key # NoKey /\ built[2].key # NoKey
        /\ [built[1].args EXCEPT !.duration = 0] = [built[2].args EXCEPT !.duration = 0]
        /\ Band(built[1].args.duration) = Band(built[2].args.duration))
         => built[1].key = built[2].key

\* C21: the two ends of the middle band, 60 and 180 seconds, keyed alike, next to
\* nothing else that differs.
C21_BothEndsOfMedium ==
  /\ built # <<>>
  /\ built[1].args.duration = 60 /\ built[2].args.duration = 180
  /\ built[1].args.music_type = built[2].args.music_type
  /\ built[1].args.mood = built[2].args.mood
  /\ built[1].args.music_type # <<>>
  /\ built[1].key # NoKey
  /\ built[1].key.duration = "medium"
  /\ built[1].key = built[2].key


\* ----- what a serve does not look at
\* two requests equal in every field but those named
SameBut(r1, r2, fields) == \A k \in (DOMAIN r1) \ fields : r1[k] = r2[k]
\* the pairs of different requests that differ in nothing but the fields named
Variants(fields) ==
  {p \in Requests \X Requests : p[1] # p[2] /\ SameBut(p[1], p[2], fields)}
SeedCategoryTierVariants == Variants({"prompt", "tag", "is_vip"})
SeedTierVariants == Variants({"prompt", "is_vip"})

\* C22: requests that differ only in prompt, tag or is_vip have the same cache
\* key, and in every state a serve of a request finds for every user the track
\* (or none) that it finds for a request that differs only in prompt or is_vip.
C22_SeedAndTierIgnored ==
  /\ \A p \in SeedCategoryTierVariants : KeyOf[p[1]] = KeyOf[p[2]]
  /\ \A p \in SeedTierVariants, u \in Users :
       select(u, p[1], NoFault) = select(u, p[2], NoFault)

\* C22: a serve was answered from the ledger for a tag and cache key that requests
\* of different prompt, and of different is_vip, share.
C22_HitForSharedKey ==
  /\ resp.kind \in Hits
  /\ resp.f = NoFault
  /\ \E r1 \in Requests, r2 \in Requests, r3 \in Requests :
       /\ r1.prompt # r2.prompt /\ SameBut(r1, r2, {"prompt"})
       /\ r1.is_vip # r3.is_vip /\ SameBut(r1, r3, {"is_vip"})
       /\ TagOf[r1] = resp.tag /\ KeyOf[r1] = resp.cache_key


\* C23: every ledger row has its blob in the bucket under tag/uuid: the insert is
\* reached only after the upload succeeded, and a generation that returns an asset
\* has uploaded, then inserted it.
C23_RowsHaveBlobs ==
  /\ \A q \in Rows : <<q.tag, q.uuid>> \in storage
  /\ resp.kind = "generated" =>
       /\ <<resp.tag, resp.uuid>> \in storage
       /\ \E q \in Rows : q.uuid = resp.uuid /\ q.tag = resp.tag /\ q.cache_key = resp.cache_key

\* C23: a generation has just inserted its row, a call has failed before, and the
\* bucket holds the blob of each of the ledger's rows.
C23_GeneratedAfterFailure ==
  /\ resp.kind = "generated"
  /\ faults > 0
  /\ Cardinality(Rows) >= 2
  /\ \A q \in Rows : <<q.tag, q.uuid>> \in storage


\* ----- the category
\* C24: a track a serve returns from the ledger, by the cached tracks or by the
\* next of the tag, is a row of the requested tag.
C24_HitOfRequestedTag ==
  resp.kind \in Hits =>
    \E q \in Rows : q.uuid = resp.uuid /\ q.tag = resp.tag

\* C24: the next of the tag was returned, a row of the requested tag with another
\* cache key, while a row of another tag has the requested cache key and an id
\* nothing else in the ledger has.
C24_OtherTagSharesKey ==
  /\ resp.kind = "seq"
  /\ \E q \in Rows : q.uuid = resp.uuid /\ q.tag = resp.tag /\ q.cache_key # resp.cache_key
  /\ \E q \in Rows :
       /\ q.tag # resp.tag /\ q.cache_key = resp.cache_key
       /\ \A q2 \in Rows \ {q} : q2.uuid # q.uuid


\* ----- what a serve writes
\* C25: a step of a serve changes no cursor but the requester's, and a serve
\* answered from the ledger leaves the ledger and the bucket as they were.
C25_HitWritesOwnCursorOnly ==
  [][/\ \A u \in Users \ {resp'.user} : music_users'[u] = music_users[u]
     /\ resp'.kind \in Hits => (music' = music /\ storage' = storage)]_vars

\* C25: a serve answered from the ledger has moved the requester's cursor, and
\* another user's cursor stands on another asset.
C25_HitBesideOtherCursor ==
  /\ resp.kind \in Hits
  /\ resp.prev # resp.uuid
  /\ music_users[resp.user] = resp.uuid
  /\ \E u \in Users \ {resp.user} : music_users[u] # None /\ music_users[u] # resp.uuid


\* C26: the cursor advance is an unconditional upsert: a step whose upsert is
\* applied leaves the requester's cursor on the id it wrote, whatever the row held,
\* smaller, greater or nothing.
C26_LastWriteWins ==
  [][(resp'.kind \in Returned /\ resp'.f.upsert) =>
       music_users'[resp'.user] = resp'.uuid]_vars

\* C26: of two overlapping serves of one user the one that minted its uuid first
\* wrote last: the cursor has moved down, from the later uuid to the earlier.
C26_CursorEndsOnSmallerId ==
  /\ resp.kind = "generated" /\ resp.f.upsert
  /\ resp.prev # None /\ resp.uuid < resp.prev
  /\ music_users[resp.user] = resp.uuid
  /\ \E q \in Rows : q.uuid = resp.prev


\* ----- cancellation
\* C27: a call that has invoked the Generator is carried through: when it leaves
\* the await with no call having failed, its blob is in the bucket and its row in
\* the ledger, whether or not the caller is still there.
C27_GenerationCarriedThrough ==
  [][\A t \in Tasks :
       (pc[t] = "generating" /\ pc'[t] = "idle" /\ faults' = faults) =>
         /\ <<job[t].tag, job[t].uuid>> \in storage'
         /\ \E q \in BagToSet(music') : q.uuid = job[t].uuid /\ q.tag = job[t].tag]_vars

\* C27, the divergence: the only generation so far was cancelled at the await;
\* no call failed, and neither a blob nor a row was written.
C27_CancelledAndLost ==
  /\ resp.kind = "cancelled"
  /\ faults = 0
  /\ InFlight = {}
  /\ music = EmptyBag /\ storage = {}


\* ----- the rendered prompt
\* the positions at which sub occurs in s
At(sub, s) == {i \in 1..(Len(s) - Len(sub) + 1) : SubSeq(s, i, i + Len(sub) - 1) = sub}

\* C28: the rendered prompt starts with the seed text; the style, mood and
\* instruments fragments appear once each exactly when their list is not empty,
\* in that order, each carrying its list's entries; with all lists empty the
\* rendered prompt is the seed text.
C28_PromptRendering ==
  built.done =>
    LET a == built.args
        out == built.enhanced_prompt
        st == At(S_style, out)
        mo == At(S_mood, out)
        ins == At(S_instruments, out)
        frag(label, l) == S_comma \o label \o Join(S_comma, l)
    IN /\ SubSeq(out, 1, Len(a.prompt)) = a.prompt
       /\ Cardinality(st) = (IF a.music_type = <<>> THEN 0 ELSE 1)
       /\ Cardinality(mo) = (IF a.mood = <<>> THEN 0 ELSE 1)
       /\ Cardinality(ins) = (IF a.instruments = <<>> THEN 0 ELSE 1)
       /\ \A i \in st, j \in mo : i < j
       /\ \A i \in st, j \in ins : i < j
       /\ \A i \in mo, j \in ins : i < j
       /\ \A i \in st : At(frag(S_style, a.music_type), out) = {i - Len(S_comma)}
       /\ \A i \in mo : At(frag(S_mood, a.mood), out) = {i - Len(S_comma)}
       /\ \A i \in ins : At(frag(S_instruments, a.instruments), out) = {i - Len(S_comma)}
       /\ Len(out) = Len(a.prompt)
                     + (IF a.music_type = <<>> THEN 0 ELSE Len(frag(S_style, a.music_type)))
                     + (IF a.mood = <<>> THEN 0 ELSE Len(frag(S_mood, a.mood)))
                     + (IF a.instruments = <<>> THEN 0
                        ELSE Len(frag(S_instruments, a.instruments)))
       /\ (a.music_type = <<>> /\ a.mood = <<>> /\ a.instruments = <<>>) => out = a.prompt

\* C28, the case: a seed rendered with a style list of two entries, no mood and
\* an instruments list; the mood fragment is left out
C28_MoodOmitted ==
  /\ built.done
  /\ Len(built.args.music_type) = 2
  /\ built.args.mood = <<>>
  /\ built.args.instruments # <<>>
  /\ built.enhanced_prompt # built.args.prompt
  /\ At(S_mood, built.enhanced_prompt) = {}
  /\ At(S_instruments, built.enhanced_prompt) # {}


\* ----- the cursor and the ledger
\* C29: every cursor that is present is the uuid of a row of the ledger.
C29_CursorPointsToRow ==
  \A u \in Users : music_users[u] # None => \E q \in Rows : q.uuid = music_users[u]

\* C29, the case: a generation whose insert failed has left the ledger without its
\* row and no cursor on its uuid, while the user's cursor stays on the row served
\* before.
C29_InsertFailedCursorKept ==
  /\ resp.kind = "error"
  /\ faults = 1
  /\ music_users[resp.user] # None
  /\ \E q \in Rows : q.uuid = music_users[resp.user]
  /\ \E p \in storage : \A q \in Rows : q.uuid # p[2]


\* ----- sign-up
\* C30: whatever the interleaving of the sign_up calls, the user table holds at
\* most one row per email.
C30_OneRowPerEmail ==
  \A e \in Emails : CopiesIn([email |-> e], accounts) <= 1

\* C30, the divergence: both sign_up calls for one email returned the created
\* user, and the table holds two rows of that email.
C30_TwoRowsOfOneEmail ==
  /\ \A w \in Workers : signup[w].pc = "idle" /\ signup[w].result = "created"
  /\ \E e \in Emails : CopiesIn([email |-> e], accounts) = 2

====
